---- MODULE Spec2Model ----
(***************************************************************************)
(* Model of the code generation workflow of langchain-code-generator:      *)
(* CodeGeneratorWorkflow.run drives four nodes (code_generator,            *)
(* syntax_checker, code_rectifier, code_executor) over one state record,   *)
(* routes between them with the conditional edges of _build_workflow and   *)
(* builds the final report with _process_final_result.                     *)
(*                                                                         *)
(* Abstractions.  A code string is a code id: 0 is the empty string, k>0   *)
(* a non-empty program text.  An error message is a record holding the     *)
(* prefix the program put in front of it ("text") and the set of catalog   *)
(* substrings that occur in it ("has").  Confidences are in hundredths.    *)
(* The collaborators (language model, flake8, black/autopep8, execution    *)
(* backends, the console) are nondeterministic: every action draws their   *)
(* answer from the outcomes their call sites distinguish.                  *)
(*                                                                         *)
(* Specifications.  Spec and FairSpec drive one run of the workflow.       *)
(* EngineSpec applies CodeRectifier.rectify_code to every code and message *)
(* of the model; BackendSpec is a process in which the executor node       *)
(* dispatches to the execution backends call after call; RaceSpec is two   *)
(* threads inside fastapi_executor.execute_code; PoolSpec is the web host  *)
(* of app.py with its thread pool.  Each specification moves its own       *)
(* variables and leaves the others at rest.                                *)
(***************************************************************************)
EXTENDS Integers, Sequences, FiniteSets, TLC

VARIABLES
    state,         \* the CodeGenerationState record threaded through the nodes
    node,          \* graph position: the node to run next, or "END"
    status,        \* run(): "running", "returned" or "propagated"
    report,        \* keys run() adds to the returned dict
    trace,         \* node invocations so far, in order
    ctx,           \* calling context of the run: "web" or "cli"
    requirements,  \* the requirements argument of run()
    sent,          \* generation prompts handed to the language model
    consumed,      \* code read by the most recent consumer of code
    exc,           \* exception raised while driving: "none", "Exception", "BaseException"
    llm_failed,    \* the language-model call of the generator node raised
    first_exec,    \* outcome of the first executor invocation: "none", "ok", "failed"
    engine_log,    \* per rectifier invocation: what the engine was given
    executed_code, \* the code the executor node ran last (NoCode: none yet)
    engine,        \* one call of CodeRectifier.rectify_code (EngineSpec)
    backend,       \* the execution backends of one process (BackendSpec)
    race,          \* two threads in fastapi_executor.execute_code (RaceSpec)
    pool           \* the web host's requests and thread pool (PoolSpec)

runvars == <<state, node, status, report, trace, ctx, requirements, sent,
             consumed, exc, llm_failed, first_exec, engine_log, executed_code>>

vars == <<state, node, status, report, trace, ctx, requirements, sent,
          consumed, exc, llm_failed, first_exec, engine_log, executed_code,
          engine, backend, race, pool>>

----------------------------------------------------------------------------
(* Bounds of the model *)

\* number of distinct non-empty code texts
NumCodes == 2

\* largest number of diagnostics flake8 reports for one file
MaxDiags == 1

\* number of distinct session snapshots the isolated interpreter hands back
NumSnapshots == 2

\* number of requests the web host receives
MaxRequests == 3

\* largest number of lines of a program given line by line
MaxLines == 4

----------------------------------------------------------------------------
(* Data *)

NoCode == 0
Codes == 1..NumCodes
\* the user's request: one text, carried through the run unread by routing
Prompts == {"request"}
\* the requirements argument: absent (None or "") or a text
NoRequirements == "None"
Requirements == {NoRequirements, "requirements"}

\* substrings the rectifier looks for that occur in this model's messages
Tokens == {"SyntaxError", "NameError"}

\* an error message: the pieces of text it is built from and the catalog
\* substrings that occur in it
Msg(text, has) == [text |-> text, has |-> has]
NoError == Msg(<<>>, {})
Truthy(m) == m.text # <<>>
Prefixed(prefix, m) == Msg(<<prefix>> \o m.text, m.has)

\* flake8 diagnostics: a style remark or a structural parse failure (E999)
StyleDiag == Msg(<<"E501 line too long">>, {})
ParseDiag == Msg(<<"E999 SyntaxError">>, {"SyntaxError"})
Diags == {StyleDiag, ParseDiag}
DiagLists == UNION {[1..n -> Diags] : n \in 0..MaxDiags}

\* error texts an execution backend reports for failing code
ExecErrors == {Msg(<<"Traceback: ZeroDivisionError">>, {}),
               Msg(<<"Traceback: NameError">>, {"NameError"})}

NodeNames == {"code_generator", "syntax_checker", "code_rectifier", "code_executor"}

NoResults == [success |-> FALSE, output |-> "", error |-> NoError, execution_time |-> 0]
NoAnalysis == [error_type |-> "", error_description |-> NoError]

InitialStateRetried(prompt) ==
    [user_prompt |-> prompt,
     generated_code |-> NoCode,
     syntax_errors |-> <<>>,
     execution_results |-> NoResults,
     current_node |-> "code_generator",
     retry_count |-> 1,
     execution_errors |-> <<>>,
     rectified_code |-> NoCode,
     rectification_attempts |-> 0,
     error_analysis |-> NoAnalysis]

InitialState(prompt) ==
    [user_prompt |-> prompt,
     generated_code |-> NoCode,
     syntax_errors |-> <<>>,
     execution_results |-> NoResults,
     current_node |-> "code_generator",
     retry_count |-> 0,
     execution_errors |-> <<>>,
     rectified_code |-> NoCode,
     rectification_attempts |-> 0,
     error_analysis |-> NoAnalysis]

\* `a or b` on two code strings
Or(a, b) == IF a # NoCode THEN a ELSE b

----------------------------------------------------------------------------
(* Code generator node *)

\* the text interpolated into the generation prompt template
GenerationPrompt(s) == <<[part |-> "User Request", text |-> s.user_prompt]>>

\* the language model answers with a text (code ids are interchangeable
\* names: the generated text is called 1, the others are texts a formatter
\* or the rectifier produces), with nothing, or the call raises
GeneratedCode == 1

LLMResponses == [ok : {TRUE}, code : {GeneratedCode, NoCode}]
                    \cup [ok : {FALSE}, code : {NoCode}]

CodeGeneratorNodeRetrying(s, resp) ==
    IF resp.ok
    THEN [s EXCEPT !.generated_code = resp.code,
                   !.current_node = "syntax_checker"]
    ELSE [s EXCEPT !.execution_results =
                       [success |-> FALSE,
                        error |-> Msg(<<"Code generation failed">>, {}),
                        output |-> "",
                        execution_time |-> 0],
                   !.current_node = "syntax_checker"]

CodeGeneratorNode(s, resp) ==
    IF resp.ok
    THEN [s EXCEPT !.generated_code = resp.code,
                   !.current_node = "syntax_checker"]
    ELSE [s EXCEPT !.execution_results =
                       [success |-> FALSE,
                        error |-> Msg(<<"Code generation failed">>, {}),
                        output |-> "",
                        execution_time |-> 0],
                   !.current_node = "end"]

----------------------------------------------------------------------------
(* Syntax checker node *)

IsSyntaxError(d) == "SyntaxError" \in d.has
AnySyntaxErrorAnyDiag(errs) == errs # <<>>

AnySyntaxError(errs) == \E i \in 1..Len(errs) : IsSyntaxError(errs[i])

\* what the linter and the formatters answer for one check: whether flake8
\* answered or ran into its 30 s timeout, the flake8 diagnostics (none when
\* flake8 is absent or times out), the formatted code (NoCode when neither
\* black nor autopep8 produced any; they are not run when a diagnostic is
\* critical), and whether the node's own machinery (temporary file) raised
\* before any of them ran
CheckOutcomes ==
    {chk \in [linter : {"answered", "timeout"}, lint : DiagLists,
              formatted : Codes \cup {NoCode}, crash : {FALSE}] :
        /\ AnySyntaxError(chk.lint) => chk.formatted = NoCode
        /\ chk.linter = "timeout" => chk.lint = <<>>}
        \cup [linter : {"not run"}, lint : {<<>>}, formatted : {NoCode}, crash : {TRUE}]

\* the code each node reads: state.get("rectified_code") or state.get("generated_code", "")
SyntaxCheckerCode(s) == Or(s.rectified_code, s.generated_code)

SyntaxCheckerNode(s, chk) ==
    LET code == SyntaxCheckerCode(s) IN
    IF code = NoCode
    THEN [s EXCEPT !.syntax_errors = <<Msg(<<"No code to check">>, {})>>,
                   !.current_node = "end"]
    ELSE IF chk.crash
    THEN [s EXCEPT !.syntax_errors = <<Msg(<<"Syntax checking failed">>, {})>>,
                   !.current_node = "code_rectifier"]
    ELSE LET critical == AnySyntaxError(chk.lint)
             formatted == IF ~critical /\ chk.formatted # NoCode
                          THEN chk.formatted ELSE code
         IN [s EXCEPT !.generated_code = formatted,
                      !.syntax_errors = chk.lint,
                      !.current_node = IF chk.lint # <<>> /\ critical
                                       THEN "code_rectifier"
                                       ELSE "code_executor"]

----------------------------------------------------------------------------
(* Rectifier engine: CodeRectifier.rectify_code *)

\* _analyze_error: the first kind of the priority list that occurs in the message
AnalyzeErrorNameFirst(m) ==
    [error_type |-> IF "NameError" \in m.has THEN "NameError"
                    ELSE IF "SyntaxError" \in m.has THEN "SyntaxError"
                    ELSE IF "ImportError" \in m.has \/ "ModuleNotFoundError" \in m.has
                    THEN "ImportError"
                    ELSE IF "IndentationError" \in m.has THEN "IndentationError"
                    ELSE IF "AttributeError" \in m.has THEN "AttributeError"
                    ELSE IF "TypeError" \in m.has THEN "TypeError"
                    ELSE IF "ValueError" \in m.has THEN "ValueError"
                    ELSE "Unknown",
     error_description |-> m]

AnalyzeError(m) ==
    [error_type |-> IF "SyntaxError" \in m.has THEN "SyntaxError"
                    ELSE IF "NameError" \in m.has THEN "NameError"
                    ELSE IF "ImportError" \in m.has \/ "ModuleNotFoundError" \in m.has
                    THEN "ImportError"
                    ELSE IF "IndentationError" \in m.has THEN "IndentationError"
                    ELSE IF "AttributeError" \in m.has THEN "AttributeError"
                    ELSE IF "TypeError" \in m.has THEN "TypeError"
                    ELSE IF "ValueError" \in m.has THEN "ValueError"
                    ELSE "Unknown",
     error_description |-> m]

\* exception names a message handed to _analyze_error may hold: the ones it
\* looks for and one it does not know
ErrorNames ==
    {"SyntaxError", "NameError", "ImportError", "ModuleNotFoundError",
     "IndentationError", "AttributeError", "TypeError", "ValueError", "KeyError"}

\* a traceback naming any of them, in any combination
NamingMessages == {Msg(<<"Traceback">>, has) : has \in SUBSET ErrorNames}

\* error_patterns, in insertion order, restricted to the substrings that
\* occur in this model's messages
FutureImportsPhrase == "from __future__ imports must occur at the beginning"

ErrorPatterns == <<FutureImportsPhrase, "SyntaxError", "NameError">>

PatternMatches(pattern, m, error_type) == pattern \in m.has \/ pattern = error_type

\* index of the first catalog entry that applies, 0 when none does
FirstPattern(m, error_type) ==
    IF \E i \in 1..Len(ErrorPatterns) : PatternMatches(ErrorPatterns[i], m, error_type)
    THEN CHOOSE i \in 1..Len(ErrorPatterns) :
            /\ PatternMatches(ErrorPatterns[i], m, error_type)
            /\ \A j \in 1..(i - 1) : ~PatternMatches(ErrorPatterns[j], m, error_type)
    ELSE 0

\* confidence a catalog entry reports when it changed the code
\* (_fix_future_imports 0.95, _fix_invalid_syntax 0.8, _fix_name_error 0.9),
\* in hundredths
FixConfidence == <<95, 80, 90>>

AIThreshold == 70
FencedConfidence == 70
DefaultAIConfidence == 50

\* what the applicable fix function can return for `code`: the code
\* unchanged with confidence 0, or a changed code with the entry's
\* confidence; no fix function runs when no catalog entry applies
FixResults(code, m) ==
    [changed : {FALSE}, code : {code}]
        \cup IF FirstPattern(m, AnalyzeError(m).error_type) = 0 THEN {}
             ELSE [changed : {TRUE}, code : Codes \ {code}]

\* _apply_pattern_fixes: the first applicable entry decides;
\* _fix_future_imports reports its confidence whether or not it moved a line
ApplyPatternFixes(code, m, error_type, fix) ==
    LET i == FirstPattern(m, error_type) IN
    IF i = 0
    THEN [code |-> code, confidence |-> 0]
    ELSE IF ErrorPatterns[i] = FutureImportsPhrase
    THEN [code |-> fix.code, confidence |-> FixConfidence[i]]
    ELSE IF ~fix.changed
    THEN [code |-> code, confidence |-> 0]
    ELSE [code |-> fix.code, confidence |-> FixConfidence[i]]

\* answers of the AI-rectification collaborator, by what rectify_code makes
\* of them: "codeless" is free text with no JSON and no fenced block, or a
\* failed call; "fenced" free text with a fenced block; "json" a JSON object;
\* "junk" JSON that is not an object, on which ai_result.get raises
\* the "confidence" key of a JSON answer is whatever the model wrote: absent
\* (rectify_code then takes the default) or a number of its choosing, 1.5 here
JsonConfidences == {DefaultAIConfidence, 150}

AIResponses ==
    [form : {"codeless", "junk"}, success : {FALSE}, code : {NoCode}, confidence : {0}]
        \cup [form : {"fenced"}, success : {TRUE}, code : Codes \cup {NoCode},
              confidence : {FencedConfidence}]
        \cup [form : {"json"}, success : {TRUE}, code : Codes \cup {NoCode},
              confidence : JsonConfidences]
        \cup [form : {"json"}, success : {FALSE}, code : {NoCode},
              confidence : {DefaultAIConfidence}]

\* the collaborator answers only when rectify_code escalates to it
NotInvoked == [form |-> "not invoked", success |-> FALSE, code |-> NoCode, confidence |-> 0]

EscalatesBelowNinety(code, m, fix) ==
    LET pattern == ApplyPatternFixes(code, m, AnalyzeError(m).error_type, fix)
    IN pattern.confidence < AIThreshold + 20 \/ pattern.code = NoCode

Escalates(code, m, fix) ==
    LET pattern == ApplyPatternFixes(code, m, AnalyzeError(m).error_type, fix)
    IN pattern.confidence < AIThreshold \/ pattern.code = NoCode

AIAnswers(code, m, fix) ==
    IF Escalates(code, m, fix) THEN AIResponses ELSE {NotInvoked}

\* _ai_rectify_code: the dict handed back to rectify_code
AIRectifyCode(code, ai) ==
    IF ai.form \in {"fenced", "json"}
    THEN [success |-> ai.success, code |-> ai.code, confidence |-> ai.confidence]
    ELSE [success |-> FALSE, code |-> code, confidence |-> 0]

Max(a, b) == IF a >= b THEN a ELSE b

RectifyCode(code, m, fix, ai) ==
    LET error_analysis == AnalyzeError(m)
        pattern == ApplyPatternFixes(code, m, error_analysis.error_type, fix)
        escalate == Escalates(code, m, fix)
        ai_result == AIRectifyCode(code, ai)
        use_ai == escalate /\ ai_result.success
        rectified_code == IF use_ai THEN ai_result.code ELSE pattern.code
        confidence == IF use_ai THEN Max(pattern.confidence, ai_result.confidence)
                      ELSE pattern.confidence
    IN [raised |-> escalate /\ ai.form = "junk",
        success |-> rectified_code # NoCode /\ rectified_code # code,
        rectified_code |-> rectified_code,
        error_analysis |-> error_analysis,
        confidence_score |-> confidence,
        ai_invoked |-> escalate]

\* the message of Python for an undefined name, without the exception's name
NameNotDefined == Msg(<<"name 'math' is not defined">>, {})

\* messages rectify_code is applied to
EngineMessages == ExecErrors \cup {NameNotDefined, ParseDiag, StyleDiag, NoError}

NoResponse ==
    [raised |-> FALSE, success |-> FALSE, rectified_code |-> NoCode,
     error_analysis |-> NoAnalysis, confidence_score |-> 0, ai_invoked |-> FALSE]

\* a program given line by line: each line is what _fix_future_imports
\* tells apart (it starts with '#!', it contains 'from __future__ import',
\* or neither) and its place in the original text
LineKinds == {"hashbang", "future", "other"}

Program(kinds) == [i \in 1..Len(kinds) |-> [kind |-> kinds[i], at |-> i]]

Programs == {Program(kinds) : kinds \in UNION {[1..n -> LineKinds] : n \in 1..MaxLines}}

FixFutureImportsBeforeShebang(lines) ==
    LET shebang == IF lines[1].kind = "hashbang" THEN <<lines[1]>> ELSE <<>>
        future_imports == SelectSeq(lines, LAMBDA l : l.kind = "future")
        other_lines == SelectSeq(lines, LAMBDA l :
                           l.kind # "future" /\ ~(l.at = 1 /\ l.kind = "hashbang"))
    IN future_imports \o shebang \o other_lines

\* _fix_future_imports: the shebang, then the future imports, then the rest
FixFutureImports(lines) ==
    LET shebang == IF lines[1].kind = "hashbang" THEN <<lines[1]>> ELSE <<>>
        future_imports == SelectSeq(lines, LAMBDA l : l.kind = "future")
        other_lines == SelectSeq(lines, LAMBDA l :
                           l.kind # "future" /\ ~(l.at = 1 /\ l.kind = "hashbang"))
    IN shebang \o future_imports \o other_lines

\* messages that hold the phrase of the future-imports entry: the phrase
\* alone, and Python's own message, which names SyntaxError as well
FutureMessages ==
    {Msg(<<FutureImportsPhrase>>, {FutureImportsPhrase}),
     Msg(<<"SyntaxError", FutureImportsPhrase>>, {"SyntaxError", FutureImportsPhrase})}

\* the code ids a program and its rearrangement go by
ProgramCode == 1
RearrangedCode == 2

\* what the applicable fix function returns: for a program given line by
\* line the result of _fix_future_imports, else one of FixResults
FixesFor(code, m, lines) ==
    IF lines = <<>> THEN FixResults(code, m)
    ELSE IF FixFutureImports(lines) = lines
    THEN {[changed |-> FALSE, code |-> code]}
    ELSE {[changed |-> TRUE, code |-> RearrangedCode]}

NoEngineCall ==
    [phase |-> "idle", original_code |-> NoCode, error_message |-> NoError,
     lines |-> <<>>, pattern |-> [code |-> NoCode, confidence |-> 0],
     ai |-> NotInvoked, response |-> NoResponse,
     rectified_lines |-> <<>>]

----------------------------------------------------------------------------
(* Rectifier node *)

RectifierCeiling == 3

\* "; ".join(syntax_errors)
RECURSIVE Join(_)
Join(errs) ==
    IF errs = <<>> THEN NoError
    ELSE LET rest == Join(Tail(errs)) IN
         Msg(Head(errs).text \o rest.text, Head(errs).has \cup rest.has)

RectifierErrorMessage(s) ==
    IF Truthy(s.execution_results.error) THEN s.execution_results.error
    ELSE IF s.syntax_errors # <<>> THEN Join(s.syntax_errors)
    ELSE NoError

RectifierCode(s) == Or(s.rectified_code, s.generated_code)

\* the node's three ways out once the engine was called
RectificationSucceededDoubleCount(s, response, error_message) ==
    [s EXCEPT !.rectified_code = response.rectified_code,
              !.generated_code = response.rectified_code,
              !.execution_errors = <<error_message>>,
              !.rectification_attempts = s.rectification_attempts + 2,
              !.error_analysis = response.error_analysis,
              !.current_node = "syntax_checker"]

RectificationSucceeded(s, response, error_message) ==
    [s EXCEPT !.rectified_code = response.rectified_code,
              !.generated_code = response.rectified_code,
              !.execution_errors = <<error_message>>,
              !.rectification_attempts = s.rectification_attempts + 1,
              !.error_analysis = response.error_analysis,
              !.current_node = "syntax_checker"]

RectificationFailedRetrying(s, error_message) ==
    [s EXCEPT !.current_node = "syntax_checker",
              !.rectification_attempts = s.rectification_attempts + 1,
              !.execution_results.error =
                  Prefixed("Rectification failed", error_message)]

RectificationFailedRegenerating(s, error_message) ==
    [s EXCEPT !.current_node = "code_generator",
              !.rectification_attempts = s.rectification_attempts + 1,
              !.execution_results.error =
                  Prefixed("Rectification failed", error_message)]

RectificationFailed(s, error_message) ==
    [s EXCEPT !.current_node = "end",
              !.rectification_attempts = s.rectification_attempts + 1,
              !.execution_results.error =
                  Prefixed("Rectification failed", error_message)]

RectificationRaisedUncounted(s) ==
    [s EXCEPT !.current_node = "end",
              !.execution_results.error = Msg(<<"Rectification error">>, {})]

RectificationRaised(s) ==
    [s EXCEPT !.current_node = "end",
              !.rectification_attempts = s.rectification_attempts + 1,
              !.execution_results.error = Msg(<<"Rectification error">>, {})]

CodeRectifierNode(s, fix, ai) ==
    LET original_code == RectifierCode(s)
        error_message == RectifierErrorMessage(s)
        attempts == s.rectification_attempts
        response == RectifyCode(original_code, error_message, fix, ai)
    IN
    IF ~Truthy(error_message) \/ original_code = NoCode
    THEN [s EXCEPT !.current_node = "end"]
    ELSE IF attempts >= RectifierCeiling
    THEN [s EXCEPT !.current_node = "end",
                   !.execution_results.error =
                       Prefixed("Maximum rectification attempts reached", error_message)]
    ELSE IF response.raised
    THEN RectificationRaised(s)
    ELSE IF response.success /\ response.rectified_code # NoCode
    THEN RectificationSucceeded(s, response, error_message)
    ELSE RectificationFailed(s, error_message)

----------------------------------------------------------------------------
(* Executor node and the execution backends *)

\* calling contexts the executor node tells apart: "web" is a worker thread
\* or a thread with a running event loop, "cli" a bare synchronous caller
Contexts == {"web", "cli"}

\* threading/asyncio inspection of CodeExecutorNode._execute
Backend(context) == IF context = "cli" THEN "isolated" ELSE "in_process"

Outputs == {"", "stdout"}

\* fastapi_executor.execute_code: success with the captured output, or the
\* traceback of the Exception the code raised
InProcessResults ==
    [raises : {FALSE}, success : {TRUE}, output : Outputs, error : {NoError}]
        \cup [raises : {FALSE}, success : {FALSE}, output : {""}, error : ExecErrors]

\* sandbox_executor.execute_code_async: status and stderr of the interpreter
\* are independent; an error raised while the event loop is set up escapes
IsolatedResults ==
    [raises : {FALSE}, success : BOOLEAN, output : {"stdout"},
     error : ExecErrors \cup {NoError}]
        \cup [raises : {FALSE}, success : {FALSE}, output : {""}, error : ExecErrors]
        \cup [raises : {TRUE}, success : {FALSE}, output : {""}, error : {NoError}]

BackendResults(context) ==
    IF Backend(context) = "in_process" THEN InProcessResults ELSE IsolatedResults

\* "Determine next node based on execution results"
ExecutorNextNodeInverted(res) ==
    IF res.success /\ ~Truthy(res.error) THEN "code_rectifier" ELSE "end"

ExecutorNextNodeOnErrorOnly(res) ==
    IF Truthy(res.error) THEN "code_rectifier" ELSE "end"

ExecutorNextNode(res) ==
    IF ~res.success /\ Truthy(res.error) THEN "code_rectifier" ELSE "end"

ExecutorCodeGeneratedFirst(s) == Or(s.generated_code, s.rectified_code)

ExecutorCode(s) == Or(s.rectified_code, s.generated_code)

CodeExecutorNodeDeltaOnly(s, res) ==
    LET code == ExecutorCode(s)
        fresh == InitialState(s.user_prompt)
    IN
    IF code = NoCode
    THEN [fresh EXCEPT !.execution_results =
                           [success |-> FALSE,
                            error |-> Msg(<<"No code to execute">>, {}),
                            output |-> "",
                            execution_time |-> 0],
                       !.current_node = "end"]
    ELSE IF res.raises
    THEN [fresh EXCEPT !.execution_results =
                           [success |-> FALSE,
                            error |-> Msg(<<"Execution error">>, {}),
                            output |-> "",
                            execution_time |-> 0],
                       !.current_node = "code_rectifier"]
    ELSE [fresh EXCEPT !.execution_results =
                           [success |-> res.success,
                            output |-> res.output,
                            error |-> res.error,
                            execution_time |-> 1],
                       !.current_node = ExecutorNextNode(res)]

CodeExecutorNode(s, res) ==
    LET code == ExecutorCode(s) IN
    IF code = NoCode
    THEN [s EXCEPT !.execution_results =
                       [success |-> FALSE,
                        error |-> Msg(<<"No code to execute">>, {}),
                        output |-> "",
                        execution_time |-> 0],
                   !.current_node = "end"]
    ELSE IF res.raises
    THEN [s EXCEPT !.execution_results =
                       [success |-> FALSE,
                        error |-> Msg(<<"Execution error">>, {}),
                        output |-> "",
                        execution_time |-> 0],
                   !.current_node = "code_rectifier"]
    ELSE [s EXCEPT !.execution_results =
                       [success |-> res.success,
                        output |-> res.output,
                        error |-> res.error,
                        execution_time |-> 1],
                   !.current_node = ExecutorNextNode(res)]

----------------------------------------------------------------------------
(* The calling thread, as CodeExecutorNode._execute inspects it *)

\* a thread name is the sequence of the words it is made of
ThreadNames == {<<"MainThread">>, <<"ThreadPoolExecutor", "-0_0">>,
                <<"executor", "-1">>, <<"Executor", "-1">>}

\* str.lower() on the words of this model's names
Lower(word) ==
    CASE word = "MainThread" -> "mainthread"
      [] word = "ThreadPoolExecutor" -> "threadpoolexecutor"
      [] word = "Executor" -> "executor"
      [] OTHER -> word

\* `sub in name`, for the two substrings the node looks for
Contains(name, sub) ==
    \E i \in 1..Len(name) :
        \/ name[i] = sub
        \/ sub = "executor" /\ name[i] = "threadpoolexecutor"

LowerName(name) == [i \in 1..Len(name) |-> Lower(name[i])]

\* name of the thread, the _fastapi_context marker, asyncio.get_running_loop()
Threads == [name : ThreadNames, marker : BOOLEAN, loop : BOOLEAN]

IsFastapiContextCaseSensitive(t) ==
    \/ Contains(t.name, "ThreadPoolExecutor")
    \/ t.marker
    \/ Contains(t.name, "executor")

IsFastapiContext(t) ==
    \/ Contains(t.name, "ThreadPoolExecutor")
    \/ t.marker
    \/ Contains(LowerName(t.name), "executor")

\* the branch of _execute a thread takes
ContextOf(t) == IF IsFastapiContext(t) \/ t.loop THEN "web" ELSE "cli"

----------------------------------------------------------------------------
(* The execution backends, call by call *)

\* a snippet, by what the denylist check of SafeCodeExecutor looks at: is its
\* first non-blank character a '#', and where does a denylisted identifier
\* occur in it: nowhere, in a comment only, or in an executable line
Snippets == [comment_first : BOOLEAN, denylisted : {"none", "comment", "code"}]

\* what exec() of a snippet does: the text it writes to stdout, whether it
\* writes to stderr, and how it ends: normally, with an Exception, or with a
\* BaseException that is no Exception (SystemExit, KeyboardInterrupt)
Behaviours == [stdout : Outputs, stderr : BOOLEAN,
               ends : {"none", "Exception", "BaseException"}]

Traceback == Msg(<<"Traceback: ZeroDivisionError">>, {})

BackendResult(success, output, error) ==
    [success |-> success, output |-> output, error |-> error]

\* what a backend entry point did: raised to its caller or returned `result`,
\* whether any of the snippet ran, whether a denylist was applied and the
\* built-ins the snippet saw
Outcome(raised, result, executed, denylist, builtins) ==
    [raised |-> raised, result |-> result, executed |-> executed,
     denylist |-> denylist, builtins |-> builtins]

NoResult == BackendResult(FALSE, "", NoError)

\* fastapi_executor.execute_code: exec(code, {}) under swapped sys.stdout
ExecuteCode(snippet, b) ==
    CASE b.ends = "none" ->
            Outcome(FALSE, BackendResult(TRUE, b.stdout, NoError), TRUE, FALSE, "all")
      [] b.ends = "Exception" ->
            Outcome(FALSE, BackendResult(FALSE, "", Traceback), TRUE, FALSE, "all")
      [] b.ends = "BaseException" ->
            Outcome(TRUE, NoResult, TRUE, FALSE, "all")

\* the "Basic safety check": `restricted in code and not code.strip().startswith('#')`
Rejected(snippet) == snippet.denylisted # "none" /\ ~snippet.comment_first

\* SafeCodeExecutor.execute_code
SafeExecuteCode(snippet, b) ==
    IF Rejected(snippet)
    THEN Outcome(FALSE, BackendResult(FALSE, "", Msg(<<"Restricted function">>, {})),
                 FALSE, TRUE, "none")
    ELSE CASE b.ends = "none" ->
                 Outcome(FALSE,
                         BackendResult(~b.stderr,
                                       IF b.stdout # "" THEN b.stdout
                                       ELSE "Code executed successfully (no output)",
                                       IF b.stderr THEN Msg(<<"stderr">>, {}) ELSE NoError),
                         TRUE, TRUE, "allowlist")
           [] b.ends = "Exception" ->
                 Outcome(FALSE, BackendResult(FALSE, "", Msg(<<"Execution error">>, {})),
                         TRUE, TRUE, "allowlist")
           [] b.ends = "BaseException" ->
                 Outcome(TRUE, NoResult, TRUE, TRUE, "allowlist")

\* session state of the isolated interpreter: a snapshot and its metadata,
\* each None (0) or belonging to snapshot k
Snapshots == 1..NumSnapshots
NoSession == [bytes |-> 0, metadata |-> 0]
Sessions == {NoSession} \cup UNION {[bytes : {0, k}, metadata : {0, k}] : k \in Snapshots}

\* `if self.session_bytes and self.session_metadata`
SessionPassed(stored) ==
    IF stored.bytes # 0 /\ stored.metadata # 0 THEN stored ELSE NoSession

\* answers of PyodideSandbox.execute: a result object (stdout "" and result
\* "" stand for None), or an Exception
SandboxAnswers ==
    [raises : {FALSE}, status : {"success", "error"}, stdout : Outputs,
     stderr : BOOLEAN, result : {"", "value"}, session : Sessions]
        \cup [raises : {TRUE}, status : {"error"}, stdout : {""}, stderr : {FALSE},
              result : {""}, session : {NoSession}]

\* the 'output' expression of _async_execute_code:
\* result.stdout or str(result.result) if result.result is not None else "Code executed successfully"
SandboxOutput(a) ==
    IF a.result # ""
    THEN (IF a.stdout # "" THEN a.stdout ELSE a.result)
    ELSE "Code executed successfully"

\* LangChainSandboxExecutor._async_execute_code: the session it leaves behind
\* and the dict it returns; the result object always has both session
\* attributes, and metadata None makes `.get` raise after they were stored
AsyncExecuteCodeKeepingOnError(stored, a) ==
    IF a.raises
    THEN [session |-> stored,
          result |-> BackendResult(FALSE, "", Msg(<<"PyodideSandbox execution error">>, {}))]
    ELSE IF a.status = "error"
    THEN [session |-> stored,
          result |-> BackendResult(FALSE, SandboxOutput(a),
                                   IF a.stderr THEN Msg(<<"stderr">>, {}) ELSE NoError)]
    ELSE IF a.session.metadata = 0
    THEN [session |-> a.session,
          result |-> BackendResult(FALSE, "", Msg(<<"PyodideSandbox execution error">>, {}))]
    ELSE [session |-> a.session,
          result |-> BackendResult(a.status = "success", SandboxOutput(a),
                                   IF a.stderr THEN Msg(<<"stderr">>, {}) ELSE NoError)]

AsyncExecuteCode(stored, a) ==
    IF a.raises
    THEN [session |-> stored,
          result |-> BackendResult(FALSE, "", Msg(<<"PyodideSandbox execution error">>, {}))]
    ELSE IF a.session.metadata = 0
    THEN [session |-> a.session,
          result |-> BackendResult(FALSE, "", Msg(<<"PyodideSandbox execution error">>, {}))]
    ELSE [session |-> a.session,
          result |-> BackendResult(a.status = "success", SandboxOutput(a),
                                   IF a.stderr THEN Msg(<<"stderr">>, {}) ELSE NoError)]

NoSnippet == [comment_first |-> FALSE, denylisted |-> "none"]

\* one invocation of the executor node with code to run: the entry point it
\* called and how often it called one, the snippet, the text the snippet
\* wrote to stdout, what the entry point did, and for the isolated
\* interpreter the session handed to it, what the interpreter call before
\* this one returned, and the session of the last answer it gave
Call(entry, impl, snippet, written, outcome, passed, prev, latest) ==
    [entry |-> entry, impl |-> impl, calls |-> 1, snippet |-> snippet,
     written |-> written, outcome |-> outcome, passed |-> passed,
     prev |-> prev, latest |-> latest]

FirstCall == [kind |-> "first", session |-> NoSession]

NoCall ==
    [entry |-> "none", impl |-> "none", calls |-> 0, snippet |-> NoSnippet,
     written |-> "", outcome |-> Outcome(FALSE, NoResult, FALSE, FALSE, "none"),
     passed |-> NoSession, prev |-> FirstCall, latest |-> NoSession]

\* a process: the thread the runs are made in, whether sandbox_executor is
\* the SafeCodeExecutor fallback, the session fields of the isolated backend,
\* what its last interpreter call returned, and the last executor invocation
NoBackend ==
    [thread |-> [name |-> <<"MainThread">>, marker |-> FALSE, loop |-> FALSE],
     fallback |-> FALSE, session |-> NoSession, returned |-> FirstCall,
     latest |-> NoSession, last |-> NoCall]

----------------------------------------------------------------------------
(* Two threads in fastapi_executor.execute_code, and the web host's pool *)

CallerThreads == {1, 2}

\* the streams of the process: the two installed before any call, and the
\* StringIO objects each call makes
Console == [kind |-> "console", of |-> 0]
ErrConsole == [kind |-> "errconsole", of |-> 0]
OutBuffer(t) == [kind |-> "stdout buffer", of |-> t]
ErrBuffer(t) == [kind |-> "stderr buffer", of |-> t]

\* sys.stdout and sys.stderr, what was written to each call's stdout buffer,
\* and per thread: the line it is about to run, its old_stdout and
\* old_stderr, and the result it returns
NoRace ==
    [stdout |-> Console,
     stderr |-> ErrConsole,
     buffer |-> [t \in CallerThreads |-> <<>>],
     line |-> [t \in CallerThreads |-> 31],
     old_stdout |-> [t \in CallerThreads |-> Console],
     old_stderr |-> [t \in CallerThreads |-> ErrConsole],
     result |-> [t \in CallerThreads |-> [success |-> FALSE, output |-> <<>>, error |-> FALSE]]]

\* ThreadPoolExecutor(max_workers=1)
max_workers == 1

Endpoints == {"/generate", "/api/test"}
Requests == 1..MaxRequests

\* the requests of the web host: the endpoint each came in at and how far it
\* is, and the work queue of the pool
NoPool ==
    [endpoint |-> [r \in Requests |-> "none"],
     phase |-> [r \in Requests |-> "none"],
     queue |-> <<>>]

----------------------------------------------------------------------------
(* Orchestrator: conditional edges of _build_workflow *)

GuardCeiling == 3

EdgeMap ==
    [code_generator |-> {"syntax_checker", "end"},
     syntax_checker |-> {"code_executor", "code_rectifier", "end"},
     code_rectifier |-> {"syntax_checker", "code_generator", "end"},
     code_executor |-> {"code_rectifier", "end"}]

EdgeTargetRestarting(token) == IF token = "end" THEN "code_generator" ELSE token

EdgeTarget(token) == IF token = "end" THEN "END" ELSE token

RouteFromGenerator(s) == s.current_node

RouteFromSyntaxChecker(s) == s.current_node

RouteFromRectifierUnguarded(s) == s.current_node

RouteFromRectifierOffByOne(s) ==
    IF s.retry_count > GuardCeiling \/ s.rectification_attempts > GuardCeiling
    THEN "end"
    ELSE s.current_node

RouteFromRectifierEarly(s) ==
    IF s.retry_count >= GuardCeiling - 1 \/ s.rectification_attempts >= GuardCeiling - 1
    THEN "end"
    ELSE s.current_node

RouteFromRectifierRetryOnly(s) ==
    IF s.retry_count >= GuardCeiling
    THEN "end"
    ELSE s.current_node

RouteFromRectifier(s) ==
    IF s.retry_count >= GuardCeiling \/ s.rectification_attempts >= GuardCeiling
    THEN "end"
    ELSE s.current_node

RouteFromExecutor(s) == s.current_node

Route(from, s) ==
    CASE from = "code_generator" -> RouteFromGenerator(s)
      [] from = "syntax_checker" -> RouteFromSyntaxChecker(s)
      [] from = "code_rectifier" -> RouteFromRectifier(s)
      [] from = "code_executor" -> RouteFromExecutor(s)

----------------------------------------------------------------------------
(* Result finalizer: _process_final_result *)

\* the parts of the report text that vary with the state; the explanation
\* paragraph is a function of the code shown
ReportText(kind, code, results, analysis, attempts, nerrors) ==
    [kind |-> kind,
     code |-> code,
     success |-> results.success,
     execution_time |-> results.execution_time,
     output |-> IF results.output = "" THEN "No output" ELSE results.output,
     error |-> IF Truthy(results.error) THEN results.error
               ELSE Msg(<<"No error">>, {}),
     analysis |-> analysis,
     attempts |-> attempts,
     syntax_errors |-> nerrors]

NoText == ReportText("", NoCode, NoResults, "", 0, 0)
FailureText == ReportText("Workflow failed", NoCode, NoResults, "", 0, 0)

NoReport == [final_result |-> NoText, workflow_status |-> "", error_message |-> ""]

FinalCode(s) == Or(s.rectified_code, s.generated_code)

FinalAnalysis(s) ==
    LET final_code == FinalCode(s)
        execution_results == s.execution_results
    IN IF execution_results.success THEN "SUCCESS"
       ELSE IF ~Truthy(execution_results.error) /\ final_code # NoCode
       THEN "Generation SUCCESS"
       ELSE "FAILED"

FinalReportText(s) ==
    ReportText("Code Generation Complete", FinalCode(s), s.execution_results,
               FinalAnalysis(s),
               IF FinalAnalysis(s) = "FAILED" THEN s.rectification_attempts ELSE 0,
               Len(s.syntax_errors))

WorkflowSuccess(s) ==
    \/ s.execution_results.success
    \/ FinalCode(s) # NoCode /\ ~Truthy(s.execution_results.error)

ProcessFinalResultNormalising(s) ==
    [state |-> [s EXCEPT !.current_node = "end",
                         !.execution_results.error =
                             IF Truthy(s.execution_results.error)
                             THEN s.execution_results.error
                             ELSE Msg(<<"No error">>, {})],
     final_result |-> FinalReportText(s),
     workflow_status |-> IF WorkflowSuccess(s) \/ FinalCode(s) # NoCode
                         THEN "completed" ELSE "failed"]

ProcessFinalResultBySuccess(s) ==
    [state |-> [s EXCEPT !.current_node = "end"],
     final_result |-> FinalReportText(s),
     workflow_status |-> IF WorkflowSuccess(s) THEN "completed" ELSE "failed"]

ProcessFinalResult(s) ==
    [state |-> [s EXCEPT !.current_node = "end"],
     final_result |-> FinalReportText(s),
     workflow_status |-> IF WorkflowSuccess(s) \/ FinalCode(s) # NoCode
                         THEN "completed" ELSE "failed"]

----------------------------------------------------------------------------
(* CodeGeneratorWorkflow.run *)

\* what a rectifier invocation hands to the engine and gets back from the AI
\* collaborator: "unknown_codeless" when the error is an execution error of
\* unrecognized kind and the escalation returns unparsable, codeless output
EngineCase(s, fix, ai) ==
    LET m == RectifierErrorMessage(s)
        response == RectifyCode(RectifierCode(s), m, fix, ai)
    IN IF /\ Truthy(s.execution_results.error)
          /\ RectifierCode(s) # NoCode
          /\ s.rectification_attempts < RectifierCeiling
          /\ response.error_analysis.error_type = "Unknown"
          /\ response.ai_invoked
          /\ ai.form = "codeless"
       THEN "unknown_codeless"
       ELSE "other"

RunInit ==
    /\ \E prompt \in Prompts : state = InitialState(prompt)
    /\ node = "code_generator"
    /\ status = "running"
    /\ report = NoReport
    /\ trace = <<>>
    /\ ctx \in Contexts
    /\ requirements \in Requirements
    /\ sent = <<>>
    /\ consumed = NoCode
    /\ exc = "none"
    /\ llm_failed = FALSE
    /\ first_exec = "none"
    /\ engine_log = <<>>
    /\ executed_code = NoCode

\* the libraries are at rest while a run is followed
LibrariesIdle ==
    /\ engine = NoEngineCall
    /\ backend = NoBackend
    /\ race = NoRace
    /\ pool = NoPool

Init == RunInit /\ LibrariesIdle

\* the except clause of run(): the report is built from initial_state
RunFails ==
    /\ state' = InitialState(state.user_prompt)
    /\ report' = [final_result |-> FailureText,
                  workflow_status |-> "failed",
                  error_message |-> "Workflow execution failed"]
    /\ status' = "returned"
    /\ exc' = "Exception"
    /\ node' = node

\* the engine stores the node's return value and follows the conditional
\* edge; a token that is no key of the edge map is an error of the engine
Hop(from, s) ==
    LET token == Route(from, s) IN
    IF token \in EdgeMap[from]
    THEN /\ state' = s
         /\ node' = EdgeTarget(token)
         /\ UNCHANGED <<status, report, exc>>
    ELSE RunFails

Generate ==
    /\ status = "running"
    /\ node = "code_generator"
    /\ \E resp \in LLMResponses :
          /\ Hop("code_generator", CodeGeneratorNode(state, resp))
          /\ llm_failed' = ~resp.ok
    /\ sent' = Append(sent, GenerationPrompt(state))
    /\ trace' = Append(trace, "code_generator")
    /\ UNCHANGED <<ctx, requirements, consumed, first_exec, engine_log, executed_code>>
    /\ UNCHANGED <<engine, backend, race, pool>>

CheckSyntax ==
    /\ status = "running"
    /\ node = "syntax_checker"
    /\ \E chk \in CheckOutcomes :
          Hop("syntax_checker", SyntaxCheckerNode(state, chk))
    /\ consumed' = SyntaxCheckerCode(state)
    /\ trace' = Append(trace, "syntax_checker")
    /\ UNCHANGED <<ctx, requirements, sent, llm_failed, first_exec, engine_log,
                   executed_code>>
    /\ UNCHANGED <<engine, backend, race, pool>>

Rectify ==
    /\ status = "running"
    /\ node = "code_rectifier"
    /\ \E fix \in FixResults(RectifierCode(state), RectifierErrorMessage(state)) :
       \E ai \in AIAnswers(RectifierCode(state), RectifierErrorMessage(state), fix) :
          /\ Hop("code_rectifier", CodeRectifierNode(state, fix, ai))
          /\ engine_log' = Append(engine_log, EngineCase(state, fix, ai))
    /\ consumed' = RectifierCode(state)
    /\ trace' = Append(trace, "code_rectifier")
    /\ UNCHANGED <<ctx, requirements, sent, llm_failed, first_exec, executed_code>>
    /\ UNCHANGED <<engine, backend, race, pool>>

Execute ==
    /\ status = "running"
    /\ node = "code_executor"
    /\ \E res \in BackendResults(ctx) :
          /\ Hop("code_executor", CodeExecutorNode(state, res))
          /\ first_exec' = IF first_exec # "none" THEN first_exec
                           ELSE IF ~res.raises /\ res.success /\ ~Truthy(res.error)
                           THEN "ok" ELSE "failed"
    /\ consumed' = ExecutorCode(state)
    /\ executed_code' = ExecutorCode(state)
    /\ trace' = Append(trace, "code_executor")
    /\ UNCHANGED <<ctx, requirements, sent, llm_failed, engine_log>>
    /\ UNCHANGED <<engine, backend, race, pool>>

\* the code run by the in-process backend raises a BaseException that is no
\* Exception (SystemExit from sys.exit(), KeyboardInterrupt): neither
\* execute_code, nor the node, nor run() catches it
ExecutedCodeExits ==
    /\ status = "running"
    /\ node = "code_executor"
    /\ Backend(ctx) = "in_process"
    /\ ExecutorCode(state) # NoCode
    /\ status' = "propagated"
    /\ exc' = "BaseException"
    /\ consumed' = ExecutorCode(state)
    /\ executed_code' = ExecutorCode(state)
    /\ trace' = Append(trace, "code_executor")
    /\ first_exec' = IF first_exec # "none" THEN first_exec ELSE "failed"
    /\ UNCHANGED <<state, node, report, ctx, requirements, sent, llm_failed, engine_log>>
    /\ UNCHANGED <<engine, backend, race, pool>>

\* an Exception raised by a node outside its own try block (its opening
\* print to a console that is closed or cannot encode the text)
NodeRaises ==
    /\ status = "running"
    /\ node \in NodeNames
    /\ RunFails
    /\ trace' = Append(trace, node)
    /\ UNCHANGED <<ctx, requirements, sent, consumed, llm_failed, first_exec,
                   engine_log, executed_code>>
    /\ UNCHANGED <<engine, backend, race, pool>>

Finalize ==
    /\ status = "running"
    /\ node = "END"
    /\ LET result == ProcessFinalResult(state) IN
          /\ state' = result.state
          /\ report' = [final_result |-> result.final_result,
                        workflow_status |-> result.workflow_status,
                        error_message |-> ""]
    /\ status' = "returned"
    /\ consumed' = FinalCode(state)
    /\ UNCHANGED <<node, trace, ctx, requirements, sent, exc, llm_failed,
                   first_exec, engine_log, executed_code>>
    /\ UNCHANGED <<engine, backend, race, pool>>

Next ==
    \/ NodeRaises
    \/ Finalize
    \/ Generate
    \/ CheckSyntax
    \/ Rectify
    \/ Execute
    \/ ExecutedCodeExits

Spec == Init /\ [][Next]_vars

\* every call returns and run() is not suspended for ever; the requirements
\* argument, which no node and no routing function reads, is left out
FairInit == Init /\ requirements = NoRequirements

FairSpec == FairInit /\ [][Next]_vars /\ WF_vars(Next)

----------------------------------------------------------------------------
(* CodeRectifier.rectify_code, applied to every code and message *)

EngineInit ==
    /\ RunInit /\ ctx = "cli" /\ requirements = NoRequirements
    /\ \/ \E code \in Codes \cup {NoCode}, m \in EngineMessages :
             engine = [NoEngineCall EXCEPT !.phase = "called",
                                           !.original_code = code,
                                           !.error_message = m]
       \/ \E lines \in Programs, m \in FutureMessages :
             engine = [NoEngineCall EXCEPT !.phase = "called",
                                           !.original_code = ProgramCode,
                                           !.error_message = m,
                                           !.lines = lines]
       \/ \E m \in NamingMessages :
             engine = [NoEngineCall EXCEPT !.phase = "analyzing",
                                           !.original_code = GeneratedCode,
                                           !.error_message = m]
    /\ backend = NoBackend
    /\ race = NoRace
    /\ pool = NoPool

RectifyCodeCall ==
    /\ engine.phase = "called"
    /\ \E fix \in FixesFor(engine.original_code, engine.error_message, engine.lines) :
       \E ai \in AIAnswers(engine.original_code, engine.error_message, fix) :
          LET response == RectifyCode(engine.original_code,
                                      engine.error_message, fix, ai)
          IN engine' = [engine EXCEPT
                           !.phase = "returned",
                           !.pattern = ApplyPatternFixes(
                               engine.original_code, engine.error_message,
                               AnalyzeError(engine.error_message).error_type, fix),
                           !.ai = ai,
                           !.response = response,
                           !.rectified_lines =
                               IF engine.lines # <<>> /\ ~response.ai_invoked
                               THEN FixFutureImports(engine.lines)
                               ELSE <<>>]
    /\ UNCHANGED <<runvars, backend, race, pool>>

\* _analyze_error called on its own
AnalyzeErrorCall ==
    /\ engine.phase = "analyzing"
    /\ engine' = [engine EXCEPT
                     !.phase = "analyzed",
                     !.response.error_analysis = AnalyzeError(engine.error_message)]
    /\ UNCHANGED <<runvars, backend, race, pool>>

EngineNext ==
    \/ RectifyCodeCall
    \/ AnalyzeErrorCall

EngineSpec == EngineInit /\ [][EngineNext]_vars

----------------------------------------------------------------------------
(* The executor node's dispatch to the backends, call after call *)

BackendInit ==
    /\ RunInit /\ ctx = "cli" /\ requirements = NoRequirements
    /\ engine = NoEngineCall
    /\ \E t \in Threads, fallback \in BOOLEAN :
          backend = [NoBackend EXCEPT !.thread = t, !.fallback = fallback]
    /\ race = NoRace
    /\ pool = NoPool

\* web branch of _execute: fastapi_executor.execute_code
DispatchInProcess ==
    /\ Backend(ContextOf(backend.thread)) = "in_process"
    /\ \E snippet \in Snippets, b \in Behaviours :
          backend' = [backend EXCEPT !.last =
              Call("fastapi_executor.execute_code", "in_process", snippet,
                   b.stdout, ExecuteCode(snippet, b),
                   NoSession, FirstCall, NoSession)]
    /\ UNCHANGED <<runvars, engine, race, pool>>

\* CLI branch of _execute: sandbox_executor.execute_code_async, which has no
\* running loop, makes one and runs _async_execute_code in it; making the
\* loop happens inside the `except RuntimeError` handler, where an OSError
\* is caught by nothing
DispatchIsolated ==
    /\ Backend(ContextOf(backend.thread)) = "isolated"
    /\ ~backend.fallback
    /\ \/ \E a \in SandboxAnswers :
             LET done == AsyncExecuteCode(backend.session, a)
                 passed == SessionPassed(backend.session)
                 returned == IF a.raises THEN [kind |-> "raised", session |-> NoSession]
                             ELSE [kind |-> "returned", session |-> a.session]
             IN backend' = [backend EXCEPT
                    !.session = done.session,
                    !.returned = returned,
                    !.latest = IF a.raises THEN backend.latest ELSE a.session,
                    !.last = Call("sandbox_executor.execute_code_async", "isolated",
                                  NoSnippet, a.stdout,
                                  Outcome(FALSE, done.result, ~a.raises, FALSE, "sandbox"),
                                  passed, backend.returned, backend.latest)]
       \/ backend' = [backend EXCEPT !.last =
              Call("sandbox_executor.execute_code_async", "isolated", NoSnippet, "",
                   Outcome(TRUE, NoResult, FALSE, FALSE, "none"),
                   NoSession, FirstCall, NoSession)]
    /\ UNCHANGED <<runvars, engine, race, pool>>

\* CLI branch when the sandbox could not be built at import:
\* execute_code_async hands the code to SafeCodeExecutor.execute_code
DispatchFallback ==
    /\ Backend(ContextOf(backend.thread)) = "isolated"
    /\ backend.fallback
    /\ \E snippet \in Snippets, b \in Behaviours :
          backend' = [backend EXCEPT !.last =
              Call("sandbox_executor.execute_code_async", "restricted", snippet,
                   IF Rejected(snippet) THEN "" ELSE b.stdout,
                   SafeExecuteCode(snippet, b),
                   NoSession, FirstCall, NoSession)]
    /\ UNCHANGED <<runvars, engine, race, pool>>

\* LangChainSandboxExecutor.reset_session
ResetSession ==
    /\ ~backend.fallback
    /\ backend' = [backend EXCEPT !.session = NoSession, !.latest = NoSession]
    /\ UNCHANGED <<runvars, engine, race, pool>>

BackendNext ==
    \/ DispatchInProcess
    \/ DispatchIsolated
    \/ DispatchFallback
    \/ ResetSession

BackendSpec == BackendInit /\ [][BackendNext]_vars

----------------------------------------------------------------------------
(* Two concurrent calls of fastapi_executor.execute_code, line by line *)

RaceInit ==
    /\ RunInit /\ ctx = "web" /\ requirements = NoRequirements
    /\ engine = NoEngineCall
    /\ backend = NoBackend
    /\ race = NoRace
    /\ pool = NoPool

AtLine(t, n) == race.line[t] = n

\* old_stdout = sys.stdout
SaveStdout(t) ==
    /\ AtLine(t, 31)
    /\ race' = [race EXCEPT !.old_stdout[t] = race.stdout, !.line[t] = 32]
    /\ UNCHANGED <<runvars, engine, backend, pool>>

\* old_stderr = sys.stderr
SaveStderr(t) ==
    /\ AtLine(t, 32)
    /\ race' = [race EXCEPT !.old_stderr[t] = race.stderr, !.line[t] = 33]
    /\ UNCHANGED <<runvars, engine, backend, pool>>

\* sys.stdout = io.StringIO()
SwapStdout(t) ==
    /\ AtLine(t, 33)
    /\ race' = [race EXCEPT !.stdout = OutBuffer(t), !.line[t] = 34]
    /\ UNCHANGED <<runvars, engine, backend, pool>>

\* sys.stderr = io.StringIO()
SwapStderr(t) ==
    /\ AtLine(t, 34)
    /\ race' = [race EXCEPT !.stderr = ErrBuffer(t), !.line[t] = 37]
    /\ UNCHANGED <<runvars, engine, backend, pool>>

\* exec(code, {}): the code of thread t prints its text, to whatever
\* sys.stdout is at that moment
ExecPrints(t) ==
    /\ AtLine(t, 37)
    /\ race' = [race EXCEPT
                    !.buffer = IF race.stdout.kind = "stdout buffer"
                               THEN [race.buffer EXCEPT ![race.stdout.of] =
                                         Append(race.buffer[race.stdout.of], t)]
                               ELSE race.buffer,
                    !.result[t].success = TRUE,
                    !.line[t] = 39]
    /\ UNCHANGED <<runvars, engine, backend, pool>>

\* result["output"] = sys.stdout.getvalue(); the console has no getvalue,
\* and the AttributeError lands in the except clause
ReadOutput(t) ==
    /\ AtLine(t, 39)
    /\ race' = [race EXCEPT
                    !.result[t] =
                        IF race.stdout.kind = "stdout buffer"
                        THEN [race.result[t] EXCEPT !.output = race.buffer[race.stdout.of]]
                        ELSE [race.result[t] EXCEPT !.error = TRUE],
                    !.line[t] = 43]
    /\ UNCHANGED <<runvars, engine, backend, pool>>

\* sys.stdout = old_stdout
RestoreStdout(t) ==
    /\ AtLine(t, 43)
    /\ race' = [race EXCEPT !.stdout = race.old_stdout[t], !.line[t] = 44]
    /\ UNCHANGED <<runvars, engine, backend, pool>>

\* sys.stderr = old_stderr; return result
RestoreStderr(t) ==
    /\ AtLine(t, 44)
    /\ race' = [race EXCEPT !.stderr = race.old_stderr[t], !.line[t] = 45]
    /\ UNCHANGED <<runvars, engine, backend, pool>>

RaceNext ==
    \E t \in CallerThreads :
        \/ SaveStdout(t)
        \/ SaveStderr(t)
        \/ SwapStdout(t)
        \/ SwapStderr(t)
        \/ ExecPrints(t)
        \/ ReadOutput(t)
        \/ RestoreStdout(t)
        \/ RestoreStderr(t)

RaceSpec == RaceInit /\ [][RaceNext]_vars

----------------------------------------------------------------------------
(* The web host: /generate and /api/test hand runs to the pool *)

PoolInit ==
    /\ RunInit /\ ctx = "web" /\ requirements = NoRequirements
    /\ engine = NoEngineCall
    /\ backend = NoBackend
    /\ race = NoRace
    /\ pool = NoPool

InPhase(phases) == {r \in Requests : pool.phase[r] \in phases}

\* a handler reaches loop.run_in_executor(executor, ...): the run is queued
Submit ==
    \E r \in Requests, e \in Endpoints :
        /\ pool.phase[r] = "none"
        /\ \A q \in 1..(r - 1) : pool.phase[q] # "none"
        /\ pool' = [pool EXCEPT !.endpoint[r] = e,
                                 !.phase[r] = "queued",
                                 !.queue = Append(pool.queue, r)]
        /\ UNCHANGED <<runvars, engine, backend, race>>

WorkerTakesWhileBusy ==
    /\ pool.queue # <<>>
    /\ Cardinality(InPhase({"running", "executing"})) <= max_workers
    /\ pool' = [pool EXCEPT !.phase[Head(pool.queue)] = "running",
                             !.queue = Tail(pool.queue)]
    /\ UNCHANGED <<runvars, engine, backend, race>>

\* an idle worker of the pool takes the oldest queued run: workflow.run begins
WorkerTakes ==
    /\ pool.queue # <<>>
    /\ Cardinality(InPhase({"running", "executing"})) < max_workers
    /\ pool' = [pool EXCEPT !.phase[Head(pool.queue)] = "running",
                             !.queue = Tail(pool.queue)]
    /\ UNCHANGED <<runvars, engine, backend, race>>

\* the run's executor node enters a backend's execute call
BackendEntered ==
    \E r \in Requests :
        /\ pool.phase[r] = "running"
        /\ pool' = [pool EXCEPT !.phase[r] = "executing"]
        /\ UNCHANGED <<runvars, engine, backend, race>>

\* the backend's execute call returns to the run
BackendLeft ==
    \E r \in Requests :
        /\ pool.phase[r] = "executing"
        /\ pool' = [pool EXCEPT !.phase[r] = "running"]
        /\ UNCHANGED <<runvars, engine, backend, race>>

\* workflow.run returns and the worker is idle again
RunReturns ==
    \E r \in Requests :
        /\ pool.phase[r] = "running"
        /\ pool' = [pool EXCEPT !.phase[r] = "done"]
        /\ UNCHANGED <<runvars, engine, backend, race>>

PoolNext ==
    \/ Submit
    \/ WorkerTakes
    \/ BackendEntered
    \/ BackendLeft
    \/ RunReturns

PoolSpec == PoolInit /\ [][PoolNext]_vars

----------------------------------------------------------------------------
(* Properties *)

Visits(n) == Cardinality({i \in 1..Len(trace) : trace[i] = n})

\* run() returned the report of the finalizer (no exception while driving)
Finished == status = "returned" /\ exc = "none"

\* C1: in every reachable state of a run rectification_attempts is between 0
\* and 3, the final state included.
C1_AttemptsWithinCeiling ==
    state.rectification_attempts \in 0..3

C1_Witness ==
    /\ Finished
    /\ state.rectification_attempts = 3
    /\ Visits("code_rectifier") = 3

\* C2: every run comes to an end after at most 12 node invocations in total,
\* and when no call raised it ends in the terminal state end.
C2_TerminatesWithin12Calls ==
    <>(/\ status # "running"
       /\ Len(trace) <= 12
       /\ exc = "none" => state.current_node = "end")

C2_Witness ==
    /\ Finished
    /\ state.current_node = "end"
    /\ Len(trace) = 10

\* C3: the finalizer reports "completed" exactly when execution succeeded or
\* the active code is non-empty with no execution error recorded, and
\* "failed" otherwise.
C3_StatusTruthTable ==
    Finished =>
        LET active == IF state.rectified_code # NoCode
                      THEN state.rectified_code ELSE state.generated_code
            ok == \/ state.execution_results.success
                  \/ active # NoCode /\ ~Truthy(state.execution_results.error)
        IN report.workflow_status = IF ok THEN "completed" ELSE "failed"

\* C4: run() never propagates an exception: whenever one is raised while the
\* state machine is driven, run() returns a report with workflow_status
\* "failed" and a synthesized error message.
C4_RunNeverPropagates ==
    exc # "none" =>
        /\ status = "returned"
        /\ report.workflow_status = "failed"
        /\ report.error_message # ""

\* every rectifier invocation of the run met an execution error of
\* unrecognized kind and a codeless, unparsable escalation
Scenario5 ==
    /\ Finished
    /\ engine_log # <<>>
    /\ \A i \in 1..Len(engine_log) : engine_log[i] = "unknown_codeless"

\* C5 as stated: in such a run the rectifier is attempted 3 times, and the
\* run ends at end with workflow_status "failed" and an error saying that the
\* maximum number of rectification attempts was reached.
C5_ThreeAttemptsThenCeiling ==
    Scenario5 =>
        /\ Visits("code_rectifier") = 3
        /\ state.current_node = "end"
        /\ report.workflow_status = "failed"
        /\ Head(state.execution_results.error.text) =
               "Maximum rectification attempts reached"

\* C5 amended: in such a run the rectifier is attempted exactly once; the run
\* then ends at end with rectification_attempts 1, execution_results.success
\* false and the error "Rectification failed: <execution error>".
C5_OneAttemptThenEnd ==
    Scenario5 =>
        /\ Visits("code_rectifier") = 1
        /\ trace[Len(trace)] = "code_rectifier"
        /\ state.current_node = "end"
        /\ state.rectification_attempts = 1
        /\ ~state.execution_results.success
        /\ \E m \in ExecErrors \cup {Msg(<<"Execution error">>, {})} :
              /\ m.has = {}
              /\ state.execution_results.error = Prefixed("Rectification failed", m)

C5_Witness ==
    /\ Scenario5
    /\ Head(state.execution_results.error.text) = "Rectification failed"

\* C6 as stated: when the first executor invocation succeeds with no error,
\* the final state has rectification_attempts 0 and workflow_status
\* "completed", and the rectifier is never visited.
C6_FirstExecutionSucceeds ==
    (Finished /\ first_exec = "ok") =>
        /\ state.rectification_attempts = 0
        /\ report.workflow_status = "completed"
        /\ Visits("code_rectifier") = 0

\* C6 amended: when the first executor invocation succeeds with no error and
\* the first syntax check routed to it (no rectification came before it), the
\* final state has rectification_attempts 0 and workflow_status "completed",
\* and the run is generator, syntax checker, executor: no rectifier visit.
C6_FirstExecutionSucceedsUnrectified ==
    (Finished /\ first_exec = "ok" /\ trace[3] = "code_executor") =>
        /\ state.rectification_attempts = 0
        /\ report.workflow_status = "completed"
        /\ Visits("code_rectifier") = 0
        /\ trace = <<"code_generator", "syntax_checker", "code_executor">>

C6_Witness ==
    /\ Finished
    /\ first_exec = "ok"
    /\ trace = <<"code_generator", "syntax_checker", "code_executor">>
    /\ state.execution_results.success

\* a step in which a consumer of code (syntax checker, rectifier, executor
\* or the finalizer) ran
ConsumerStep ==
    \/ /\ trace' # trace
       /\ trace'[Len(trace')] # "code_generator"
       /\ exc' # "Exception"
    \/ status = "running" /\ status' = "returned" /\ exc' = "none"

\* C7: every consumer of code reads the active code: rectified_code when it
\* is non-empty, generated_code only when rectified_code is empty.
C7_ConsumersReadActiveCode ==
    [][ConsumerStep =>
          consumed' = IF state.rectified_code # NoCode
                      THEN state.rectified_code
                      ELSE state.generated_code]_vars

C7_Witness ==
    /\ trace # <<>>
    /\ trace[Len(trace)] = "code_executor"
    /\ state.rectified_code # NoCode
    /\ state.generated_code # state.rectified_code
    /\ consumed = state.rectified_code

\* C8: applying the finalizer to its own output yields the same final_result
\* and workflow_status again, and changes nothing in the state.
C8_FinalizerIdempotent ==
    Finished =>
        LET again == ProcessFinalResult(state) IN
        /\ again.final_result = report.final_result
        /\ again.workflow_status = report.workflow_status
        /\ again.state = state

C8_Witness ==
    /\ Finished
    /\ report.final_result.analysis = "Generation SUCCESS"
    /\ ~state.execution_results.success

\* C9: a non-empty requirements argument of run() is part of the generation
\* prompt sent to the language model.
C9_RequirementsInPrompt ==
    (requirements # NoRequirements /\ sent # <<>>) =>
        \E i \in 1..Len(sent) : \E j \in 1..Len(sent[i]) :
            sent[i][j].text = requirements /\ sent[i][j].part # "User Request"

\* C10: when the language-model call of the generator fails, the run goes
\* from code_generator straight to end with execution_results.success false
\* and an error set; no other node runs, the generator is not retried, and
\* the final workflow_status is "failed".
C10_GenerationFailureIsFatal ==
    llm_failed =>
        /\ trace = <<"code_generator">>
        /\ Len(sent) = 1
        /\ node = "END"
        /\ ~state.execution_results.success
        /\ Truthy(state.execution_results.error)
        /\ exc = "none"
        /\ status = "returned" =>
              /\ report.workflow_status = "failed"
              /\ state.current_node = "end"

C10_Witness ==
    /\ llm_failed
    /\ Finished
    /\ report.workflow_status = "failed"

\* the last executor invocation called a backend entry point
Called == backend.last.entry # "none"

\* C11: no backend entry point used by the executor node raises to its
\* caller, whatever the code and however the executed code or the
\* interpreter fails: it returns a result, and a failure is a result with
\* success false and the failure in error.
C11_BackendsNeverRaise ==
    Called =>
        /\ ~backend.last.outcome.raised
        /\ ~backend.last.outcome.result.success =>
               Truthy(backend.last.outcome.result.error)

\* C12: for every backend, when the executed code wrote text to stdout, that
\* text is the output field of the returned result.
C12_OutputHoldsStdout ==
    (Called /\ ~backend.last.outcome.raised /\ backend.last.written # "") =>
        backend.last.outcome.result.output = backend.last.written

\* C13 as stated: every call of the isolated backend after the first passes
\* to the interpreter the session state that the immediately preceding call
\* returned.
C13_PassesPrecedingSession ==
    (backend.last.impl = "isolated" /\ ~backend.last.outcome.raised
                                    /\ backend.last.prev.kind # "first") =>
        /\ backend.last.prev.kind = "returned"
        /\ backend.last.passed = backend.last.prev.session

\* C13 amended: every call of the isolated backend passes the session state
\* of the most recent interpreter answer (calls in which the interpreter
\* raised are skipped) when both its session_bytes and its session_metadata
\* are non-empty and reset_session was not called since; in every other case
\* it passes no session and the interpreter starts afresh.
C13_PassesLatestCompleteSession ==
    (backend.last.impl = "isolated" /\ ~backend.last.outcome.raised) =>
        backend.last.passed =
            IF backend.last.latest.bytes # 0 /\ backend.last.latest.metadata # 0
            THEN backend.last.latest
            ELSE NoSession

C13_Witness ==
    /\ backend.last.impl = "isolated"
    /\ backend.last.prev.kind = "raised"
    /\ backend.last.passed # NoSession
    /\ backend.last.passed = backend.last.latest

\* C14: the restricted evaluator rejects every snippet with a denylisted
\* identifier in an executable line: 'Restricted function' error, success
\* false, no part of the snippet executed, also when the snippet begins with
\* a comment line.
C14_DenylistedCodeRejected ==
    (backend.last.impl = "restricted" /\ backend.last.snippet.denylisted = "code") =>
        /\ ~backend.last.outcome.raised
        /\ ~backend.last.outcome.executed
        /\ ~backend.last.outcome.result.success
        /\ backend.last.outcome.result.error = Msg(<<"Restricted function">>, {})

\* C15: in a worker-thread or concurrency-host context the backend the
\* executor node dispatches to applies the denylist before execution, runs
\* no snippet with a denylisted identifier in its code, and runs accepted
\* code with the allowlisted built-ins only.
C15_WebBackendRestricts ==
    (Called /\ ContextOf(backend.thread) = "web") =>
        /\ backend.last.outcome.denylist
        /\ backend.last.snippet.denylisted = "code" => ~backend.last.outcome.executed
        /\ backend.last.outcome.executed => backend.last.outcome.builtins = "allowlist"

\* C16 as stated: the in-process backend is called when the thread's name
\* contains 'ThreadPoolExecutor' or 'executor', the thread carries the
\* marker or a loop is running, the isolated backend in every other context,
\* and one backend is called per invocation.
C16_BackendByContext ==
    Called =>
        /\ backend.last.calls = 1
        /\ backend.last.entry =
              IF \/ Contains(backend.thread.name, "ThreadPoolExecutor")
                 \/ Contains(backend.thread.name, "executor")
                 \/ backend.thread.marker
                 \/ backend.thread.loop
              THEN "fastapi_executor.execute_code"
              ELSE "sandbox_executor.execute_code_async"

\* C16 amended: the in-process backend is called when the thread's name
\* contains 'ThreadPoolExecutor', or contains 'executor' in any letter case,
\* or the thread carries the marker, or a loop is running; the isolated
\* backend's entry point in every other context; one backend per invocation.
C16_BackendByContextAnyCase ==
    Called =>
        /\ backend.last.calls = 1
        /\ backend.last.entry =
              IF \/ Contains(backend.thread.name, "ThreadPoolExecutor")
                 \/ \E i \in 1..Len(backend.thread.name) :
                        backend.thread.name[i] \in {"executor", "Executor",
                                                     "ThreadPoolExecutor"}
                 \/ backend.thread.marker
                 \/ backend.thread.loop
              THEN "fastapi_executor.execute_code"
              ELSE "sandbox_executor.execute_code_async"

C16_Witness ==
    /\ backend.last.entry = "fastapi_executor.execute_code"
    /\ backend.thread.name = <<"Executor", "-1">>
    /\ ~backend.thread.marker
    /\ ~backend.thread.loop

\* C19: the confidence_score returned by rectify_code lies in [0, 1], for
\* every code, every message and every answer of the AI collaborator.
C19_ConfidenceInUnitInterval ==
    (engine.phase = "returned" /\ ~engine.response.raised) =>
        engine.response.confidence_score \in 0..100

\* C20: for the message "name 'math' is not defined" rectify_code applies
\* the deterministic name fix: the code comes back changed (the import
\* inserted), with confidence 0.9, and the AI collaborator is not invoked.
C20_NameFixForBareMessage ==
    (/\ engine.phase = "returned"
     /\ engine.error_message = NameNotDefined
     /\ engine.original_code # NoCode) =>
        /\ ~engine.response.raised
        /\ engine.response.rectified_code \notin {NoCode, engine.original_code}
        /\ engine.response.confidence_score = 90
        /\ ~engine.response.ai_invoked

\* both calls of execute_code have returned
BothReturned == \A t \in CallerThreads : race.line[t] = 45

\* C17: for any interleaving of two concurrent execute_code calls, each call
\* returns exactly the output its own code wrote, and once both have
\* returned sys.stdout and sys.stderr are the streams installed before
\* either call began.
C17_ConcurrentCallsIsolated ==
    BothReturned =>
        /\ \A t \in CallerThreads :
              /\ race.result[t].success
              /\ ~race.result[t].error
              /\ race.result[t].output = <<t>>
        /\ race.stdout = Console
        /\ race.stderr = ErrConsole

\* C18: in the web host at no time are two runs in progress, and no two
\* backend execute calls overlap: every run started by /generate or
\* /api/test goes through the one worker of the pool.
C18_RunsSerialized ==
    /\ Cardinality(InPhase({"running", "executing"})) <= 1
    /\ Cardinality(InPhase({"executing"})) <= 1

C18_Witness ==
    /\ InPhase({"executing"}) # {}
    /\ InPhase({"queued"}) # {}
    /\ InPhase({"done"}) # {}
    /\ \E r, q \in Requests :
          /\ pool.phase[r] = "executing" /\ pool.endpoint[r] = "/generate"
          /\ pool.phase[q] = "queued" /\ pool.endpoint[q] = "/api/test"

\* rectify_code returned for a program with a future import after another
\* statement and a message holding the phrase of the future-imports entry
Scenario1 ==
    /\ engine.phase = "returned"
    /\ engine.lines # <<>>
    /\ FutureImportsPhrase \in engine.error_message.has
    /\ \E i, j \in 1..Len(engine.lines) :
          i < j /\ engine.lines[i].kind = "other" /\ engine.lines[j].kind = "future"

\* C21: for such a program and message the rectifier returns the same lines
\* with all future-import lines first (after the shebang when the first line
\* is one) and the other lines in their original order, with confidence 0.95.
C21_FutureImportsMovedFirst ==
    Scenario1 =>
        LET lines == engine.lines
            out == engine.rectified_lines
            shebang == lines[1].kind = "hashbang"
        IN /\ ~engine.response.raised
           /\ engine.response.success
           /\ engine.response.confidence_score = 95
           /\ Len(out) = Len(lines)
           /\ {out[i] : i \in 1..Len(out)} = {lines[i] : i \in 1..Len(lines)}
           /\ shebang => out[1] = lines[1]
           /\ \A i, j \in 1..Len(out) :
                 (i < j /\ out[j].kind = "future") =>
                     \/ out[i].kind = "future"
                     \/ shebang /\ i = 1
           /\ \A i, j \in 1..Len(out) :
                 (i < j /\ out[i].kind # "future" /\ out[j].kind # "future") =>
                     out[i].at < out[j].at

C21_Witness ==
    /\ Scenario1
    /\ engine.lines = Program(<<"hashbang", "other", "future", "other">>)
    /\ engine.rectified_lines # engine.lines
    /\ "SyntaxError" \in engine.error_message.has

\* the transition table of the orchestrator, row by row
TransitionTable ==
    {<<"code_generator", "syntax_checker">>, <<"code_generator", "END">>,
     <<"syntax_checker", "code_executor">>, <<"syntax_checker", "code_rectifier">>,
     <<"syntax_checker", "END">>,
     <<"code_rectifier", "syntax_checker">>, <<"code_rectifier", "code_generator">>,
     <<"code_rectifier", "END">>,
     <<"code_executor", "code_rectifier">>, <<"code_executor", "END">>}

\* the tokens the table knows at a node's exit
KnownTokens(from) ==
    {t \in NodeNames \cup {"end"} :
        <<from, IF t = "end" THEN "END" ELSE t>> \in TransitionTable}

LastNode == trace[Len(trace)]

\* C22: every hop is a row of the transition table, and whatever a node
\* answers, the token routed at its exit is one the table knows for that node,
\* so that no run fails on an unknown token.
C22_HopsFollowTransitionTable ==
    /\ \A i \in 1..(Len(trace) - 1) : <<trace[i], trace[i + 1]>> \in TransitionTable
    /\ (trace # <<>> /\ exc = "none") => <<LastNode, node>> \in TransitionTable
    /\ (status = "running" /\ node = "code_generator") =>
          \A resp \in LLMResponses :
             Route(node, CodeGeneratorNode(state, resp)) \in KnownTokens(node)
    /\ (status = "running" /\ node = "syntax_checker") =>
          \A chk \in CheckOutcomes :
             Route(node, SyntaxCheckerNode(state, chk)) \in KnownTokens(node)
    /\ (status = "running" /\ node = "code_rectifier") =>
          \A fix \in FixResults(RectifierCode(state), RectifierErrorMessage(state)) :
          \A ai \in AIAnswers(RectifierCode(state), RectifierErrorMessage(state), fix) :
             Route(node, CodeRectifierNode(state, fix, ai)) \in KnownTokens(node)
    /\ (status = "running" /\ node = "code_executor") =>
          \A res \in BackendResults(ctx) :
             Route(node, CodeExecutorNode(state, res)) \in KnownTokens(node)

C22_Witness ==
    /\ Finished
    /\ trace # <<>>
    /\ LastNode = "code_executor"
    /\ \E i \in 1..(Len(trace) - 1) :
          trace[i] = "code_rectifier" /\ trace[i + 1] = "syntax_checker"
    /\ \E i \in 1..(Len(trace) - 1) :
          trace[i] = "code_executor" /\ trace[i + 1] = "code_rectifier"

\* the token the node that ran last wrote into current_node
WrittenToken == state.current_node

\* C23: at the exit of code_rectifier the run goes to end when retry_count
\* or rectification_attempts reached 3, whatever token the node wrote, and
\* else to the node of the token; at every other exit the token alone decides.
C23_GuardOnlyAtRectifierExit ==
    (status = "running" /\ exc = "none" /\ trace # <<>>) =>
        node = IF /\ LastNode = "code_rectifier"
                  /\ \/ state.retry_count >= 3
                     \/ state.rectification_attempts >= 3
               THEN "END"
               ELSE IF WrittenToken = "end" THEN "END" ELSE WrittenToken

C23_Witness ==
    /\ status = "running"
    /\ trace # <<>>
    /\ LastNode = "code_rectifier"
    /\ state.rectification_attempts = 3
    /\ WrittenToken = "syntax_checker"
    /\ node = "END"

\* the rectifier node ran last and its engine call succeeded: only that way
\* out writes the token syntax_checker
RectifiedLast ==
    /\ status = "running"
    /\ exc = "none"
    /\ trace # <<>>
    /\ LastNode = "code_rectifier"
    /\ WrittenToken = "syntax_checker"

\* C24 as stated: after every rectifier invocation in which the engine
\* succeeds, the syntax checker is the next node executed.
C24_CheckerFollowsEverySuccess ==
    RectifiedLast => node = "syntax_checker"

\* C24 amended: after a successful rectification that leaves fewer than 3
\* attempts counted the syntax checker is the next node; the third successful
\* rectification ends the run, its code unchecked; a finished run that counted
\* fewer than 3 attempts and holds rectified code passed from the rectifier
\* to the syntax checker.
C24_CheckerFollowsSuccessBelowCeiling ==
    /\ RectifiedLast =>
          /\ state.rectification_attempts < 3 => node = "syntax_checker"
          /\ state.rectification_attempts >= 3 => node = "END"
    /\ (Finished /\ state.rectified_code # NoCode /\ state.rectification_attempts < 3) =>
          \E i \in 1..(Len(trace) - 1) :
             trace[i] = "code_rectifier" /\ trace[i + 1] = "syntax_checker"

C24_Witness ==
    /\ RectifiedLast
    /\ state.rectification_attempts = 2
    /\ node = "syntax_checker"

\* C25: execution_errors accumulates: after k successful rectifications it
\* holds k entries.  (While a run goes on every counted attempt was a
\* success, a failed one ends the run.)
C25_ExecutionErrorsAccumulate ==
    RectifiedLast => Len(state.execution_errors) = state.rectification_attempts

\* C26: the message the rectifier node hands to the engine is the error of
\* the node that failed last: the execution error after the executor, the
\* joined syntax diagnostics after the syntax checker.
C26_RectifierReadsLatestError ==
    (status = "running" /\ exc = "none" /\ node = "code_rectifier" /\ trace # <<>>) =>
        /\ LastNode = "code_executor" =>
              RectifierErrorMessage(state) = state.execution_results.error
        /\ LastNode = "syntax_checker" =>
              RectifierErrorMessage(state) = Join(state.syntax_errors)

\* a step of the rectifier node in which rectify_code was called and did not
\* deliver: it reported failure, returned no code, or raised
EngineFailsStep ==
    /\ status = "running"
    /\ node = "code_rectifier"
    /\ Truthy(RectifierErrorMessage(state))
    /\ RectifierCode(state) # NoCode
    /\ state.rectification_attempts < 3
    /\ trace' = Append(trace, "code_rectifier")
    /\ exc' = "none"
    /\ state'.current_node = "end"

ExecutedLast ==
    /\ status = "running"
    /\ exc = "none"
    /\ trace # <<>>
    /\ LastNode = "code_executor"
    /\ ExecutorCode(state) # NoCode

\* C28: after the executor node the run goes to end when the execution
\* succeeded and to code_rectifier when it failed with a non-empty error; an
\* exception escaping the node's dispatch leaves success false, an error set,
\* and goes to code_rectifier.
C28_ExecutorRouting ==
    ExecutedLast =>
        LET results == state.execution_results IN
        /\ results.success => node = "END"
        /\ (~results.success /\ Truthy(results.error)) => node = "code_rectifier"
        /\ (Truthy(results.error) /\ Head(results.error.text) = "Execution error") =>
              /\ ~results.success
              /\ node = "code_rectifier"

C28_Witness ==
    /\ ExecutedLast
    /\ state.execution_results.error = Msg(<<"Execution error">>, {})
    /\ ~state.execution_results.success
    /\ node = "code_rectifier"

\* a step of the syntax checker node, on some code, that returned to the
\* orchestrator
CheckerStep ==
    /\ status = "running"
    /\ node = "syntax_checker"
    /\ SyntaxCheckerCode(state) # NoCode
    /\ trace' = Append(trace, "syntax_checker")
    /\ exc' = "none"

\* the diagnostics the step recorded: one of them names SyntaxError; the
\* single entry of the node's own except clause
StructuralRecorded ==
    \E i \in 1..Len(state'.syntax_errors) : "SyntaxError" \in state'.syntax_errors[i].has

CrashRecorded == state'.syntax_errors = <<Msg(<<"Syntax checking failed">>, {})>>

C30_TimeoutsFailClosed ==
    /\ (status = "running" /\ node = "code_generator") =>
          \A resp \in LLMResponses :
             ~resp.ok =>
                LET s == CodeGeneratorNode(state, resp) IN
                /\ Truthy(s.execution_results.error)
                /\ Route(node, s) \in {"code_rectifier", "end"}
    /\ (status = "running" /\ node = "syntax_checker" /\ SyntaxCheckerCode(state) # NoCode) =>
          \A chk \in CheckOutcomes :
             chk.linter = "timeout" =>
                LET s == SyntaxCheckerNode(state, chk) IN
                /\ s.syntax_errors # <<>> \/ Truthy(s.execution_results.error)
                /\ Route(node, s) \in {"code_rectifier", "end"}

\* a node ran and returned its state to the orchestrator
NodeStep ==
    /\ status = "running"
    /\ node \in NodeNames
    /\ trace' = Append(trace, node)
    /\ exc' = "none"

\* the fields each node's delta may set
DeltaFields ==
    [code_generator |-> {"generated_code", "execution_results", "current_node"},
     syntax_checker |-> {"generated_code", "syntax_errors", "current_node"},
     code_rectifier |-> {"rectified_code", "generated_code", "execution_errors",
                         "rectification_attempts", "error_analysis",
                         "execution_results", "current_node"},
     code_executor |-> {"execution_results", "current_node"}]

\* C31: every node returns the complete state record, the fields outside
\* its delta unchanged: user_prompt is never modified; generator, syntax
\* checker and executor leave rectified_code and rectification_attempts
\* alone; rectification_attempts changes only in the rectifier, by +1.
C31_NodesReturnWholeState ==
    [][NodeStep =>
          /\ DOMAIN state' = DOMAIN state
          /\ \A f \in DOMAIN state \ DeltaFields[node] : state'[f] = state[f]
          /\ state'.user_prompt = state.user_prompt
          /\ node # "code_rectifier" =>
                /\ state'.rectified_code = state.rectified_code
                /\ state'.rectification_attempts = state.rectification_attempts
          /\ state'.rectification_attempts \in
                {state.rectification_attempts, state.rectification_attempts + 1}]_vars

C31_Witness ==
    /\ status = "running"
    /\ trace # <<>>
    /\ LastNode = "code_executor"
    /\ state.rectified_code # NoCode
    /\ state.rectification_attempts = 2
    /\ state.execution_errors # <<>>
    /\ state.syntax_errors # <<>>

\* C32: retry_count is 0 in every state of every run, so the guard of the
\* rectifier exit never fires on retry_count >= 3.
C32_RetryCountStaysZero ==
    /\ state.retry_count = 0
    /\ ~(state.retry_count >= GuardCeiling)

C32_Witness ==
    /\ Finished
    /\ trace # <<>>
    /\ LastNode = "code_rectifier"
    /\ state.rectification_attempts = 3
    /\ state.retry_count = 0

\* the priority list of the classification, and the names that stand for
\* each kind
PriorityList ==
    <<"SyntaxError", "NameError", "ImportError", "IndentationError",
      "AttributeError", "TypeError", "ValueError">>

KindOccurs(kind, m) ==
    \/ kind \in m.has
    \/ kind = "ImportError" /\ "ModuleNotFoundError" \in m.has

\* C33: _analyze_error returns the first kind of the priority list whose
\* name occurs in the message (ImportError for ModuleNotFoundError too), and
\* Unknown when none occurs.
C33_ClassificationByPriority ==
    engine.phase = "analyzed" =>
        LET m == engine.error_message
            kind == engine.response.error_analysis.error_type
        IN /\ (\A i \in 1..Len(PriorityList) : ~KindOccurs(PriorityList[i], m))
                 => kind = "Unknown"
           /\ \A i \in 1..Len(PriorityList) :
                 (/\ KindOccurs(PriorityList[i], m)
                  /\ \A j \in 1..(i - 1) : ~KindOccurs(PriorityList[j], m))
                 => kind = PriorityList[i]

C33_Witness ==
    /\ engine.phase = "analyzed"
    /\ engine.error_message.has = {"ModuleNotFoundError", "TypeError", "ValueError"}
    /\ engine.response.error_analysis.error_type = "ImportError"

\* C34: rectify_code consults the AI collaborator exactly when the pattern
\* fix reported a confidence below 0.7 or handed back no code; when the
\* collaborator's answer is taken, the confidence returned is the larger of
\* the two.
C34_EscalationRule ==
    engine.phase = "returned" =>
        LET low == engine.pattern.confidence < 70 \/ engine.pattern.code = NoCode
            answered == engine.ai # NotInvoked
        IN /\ engine.response.ai_invoked <=> low
           /\ answered <=> low
           /\ (answered /\ engine.ai.success /\ ~engine.response.raised) =>
                 /\ engine.response.confidence_score >= engine.pattern.confidence
                 /\ engine.response.confidence_score >= engine.ai.confidence
                 /\ engine.response.confidence_score
                        \in {engine.pattern.confidence, engine.ai.confidence}
           /\ ~answered =>
                 /\ engine.response.confidence_score = engine.pattern.confidence
                 /\ engine.response.rectified_code = engine.pattern.code

C34_Witness ==
    /\ engine.phase = "returned"
    /\ engine.pattern.code # NoCode
    /\ engine.pattern.confidence = 0
    /\ engine.ai.form = "fenced"
    /\ engine.ai.code # NoCode
    /\ engine.response.ai_invoked
    /\ engine.response.confidence_score = 70

CeilingMessage(m) ==
    Truthy(m) /\ Head(m.text) = "Maximum rectification attempts reached"

\* C35: the rectifier node is never invoked with rectification_attempts at 3
\* or more, so its own ceiling branch is never taken inside run() and no
\* state or report of a run carries the error "Maximum rectification
\* attempts reached".
C35_NodeCeilingUnreachable ==
    /\ (status = "running" /\ node = "code_rectifier") =>
          state.rectification_attempts < 3
    /\ ~CeilingMessage(state.execution_results.error)
    /\ status = "returned" => ~CeilingMessage(report.final_result.error)

C35_Witness ==
    /\ status = "running"
    /\ node = "code_rectifier"
    /\ state.rectification_attempts = 2
    /\ Visits("code_rectifier") = 2

\* C36: in every run the generator is invoked exactly once (no hop leads
\* from the rectifier back to it), the syntax checker, the executor and the
\* rectifier at most 3 times each, hence at most 10 node invocations.
C36_InvocationCounts ==
    /\ trace # <<>> => trace[1] = "code_generator" /\ Visits("code_generator") = 1
    /\ \A i \in 1..(Len(trace) - 1) :
          ~(trace[i] = "code_rectifier" /\ trace[i + 1] = "code_generator")
    /\ (trace # <<>> /\ LastNode = "code_rectifier") => node # "code_generator"
    /\ Visits("syntax_checker") <= 3
    /\ Visits("code_executor") <= 3
    /\ Visits("code_rectifier") <= 3
    /\ Len(trace) <= 10

C36_Witness ==
    /\ Finished
    /\ Visits("code_generator") = 1
    /\ Visits("syntax_checker") = 3
    /\ Visits("code_executor") = 3
    /\ Visits("code_rectifier") = 3

\* the execution results of the state are the ones the executor node wrote
\* when it last ran
ResultsFromExecutor ==
    /\ Visits("code_executor") > 0
    /\ executed_code # NoCode
    /\ ~Truthy(state.execution_results.error)
       \/ Head(state.execution_results.error.text)
              \notin {"Rectification failed", "Rectification error"}

\* C37: in every final state whose execution results were written by the
\* executor node, the code the executor ran to produce them is the active
\* code that the final report presents.
C37_ResultsDescribeFinalCode ==
    (Finished /\ ResultsFromExecutor) =>
        /\ executed_code = FinalCode(state)
        /\ executed_code = report.final_result.code

\* C38: whenever the executor node runs directly after the syntax checker,
\* the code it executes is the code the syntax checker wrote to
\* generated_code in that step.
C38_ExecutorRunsCheckedCode ==
    [][(/\ status = "running"
        /\ node = "code_executor"
        /\ trace # <<>>
        /\ LastNode = "syntax_checker"
        /\ trace' = Append(trace, "code_executor")
        /\ exc' # "Exception")
       => executed_code' = state.generated_code]_vars

\* C39: whenever a run goes from the executor node straight to end, on
\* non-empty code, the execution succeeded: a failed execution never ends
\* the run there, whatever the backend left in the error field.
C39_FailedExecutionNeverEnds ==
    (ExecutedLast /\ node = "END") => state.execution_results.success

\* the code the final report presents
ActiveCode ==
    IF state.rectified_code # NoCode THEN state.rectified_code
    ELSE state.generated_code

\* C40: a run that finishes without an exception in run() reports "failed"
\* exactly when its final active code is empty and "completed" otherwise,
\* whatever the execution results and the attempts counted.
C40_StatusFollowsCodeAlone ==
    Finished =>
        /\ report.workflow_status \in {"completed", "failed"}
        /\ report.workflow_status = "failed" <=> ActiveCode = NoCode
        /\ ActiveCode # NoCode => report.workflow_status = "completed"

C40_Witness ==
    /\ Finished
    /\ ActiveCode # NoCode
    /\ ~state.execution_results.success
    /\ Truthy(state.execution_results.error)
    /\ state.rectification_attempts = 3
    /\ report.workflow_status = "completed"

====
